---- MODULE Spec2Model ----
(***************************************************************************)
(* Model of src/allocation/main.cpp: a heap allocator over an sbrk-grown   *)
(* region with five placement policies (first-fit, next-fit, best-fit,     *)
(* explicit free list, segregated lists), block splitting and coalescing.  *)
(*                                                                         *)
(* The heap is modelled at machine-word granularity, because the code      *)
(* computes block addresses by pointer arithmetic and a block header can   *)
(* be written on top of another one.  mem[i] is the 8-byte word at byte    *)
(* address Base + 8*i.  A word holds an integer: a size_t (values of       *)
(* 2^64 - k are represented by -k), a bool in its low byte, or a pointer   *)
(* (0 is nullptr, Base + off is the address off bytes above the initial    *)
(* program break).                                                         *)
(*                                                                         *)
(* Environment: the initial break is page aligned and the whole modelled   *)
(* heap lies in one page of MemWords words.  The kernel maps that page as  *)
(* soon as the break is above Base and unmaps it (so that it reads as      *)
(* zero when mapped again) when the break returns to Base.  An access      *)
(* outside the mapped page is a segmentation fault.  sbrk refuses to grow  *)
(* the break past the end of the page.                                     *)
(***************************************************************************)
EXTENDS Integers, Sequences, FiniteSets, Bags, TLC

\* ---------------------------------------------------------------- bounds
\* Words in the heap page.
MemWords == 18
\* alloc/free calls per run, when init may be called at any time.
MaxOps == 5
\* alloc/free calls per run, when the run stays in one mode.
DeepOps == 7

\* ------------------------------------------------------ program constants
\* sizeof(word_t)
WordSize == 8
\* sizeof(Block): size, used (padded), next, data[1]
SizeofBlock == 32
\* Number of entries of segregatedLists / segregatedTops
NumBuckets == 5
\* nullptr
NULL == 0
\* Address returned by the first sbrk(0): the initial program break.
Base == 4096

\* Byte sizes passed to alloc.
Requests == {3, 16, 32, 48}

FirstFit == "FirstFit"
NextFit == "NextFit"
BestFit == "BestFit"
FreeList == "FreeList"
SegregatedList == "SegregatedList"
SearchMode == {FirstFit, NextFit, BestFit, FreeList, SegregatedList}

VARIABLES
    mem,            \* heap words
    brk,            \* program break, in bytes above Base
    heapStart,      \* Block *heapStart
    top,            \* Block *top
    searchMode,     \* SearchMode searchMode
    searchStart,    \* Block *searchStart
    free_list,      \* std::list<Block *> free_list
    segregatedLists, \* Block *segregatedLists[5]
    segregatedTops, \* Block *segregatedTops[5]
    segSlack,       \* the words next to the two tables that a bad index reaches
    status,         \* "ok", "crashed" (SIGSEGV) or "hung" (a loop that never ends)
    env,            \* what the build and the run fix: see EnvChoices
    live,           \* bag of the handles alloc returned in this session, less those freed
    last,           \* the last call, its argument and its result; for an alloc,
                    \* freed is the handle the call right before it freed
    ops             \* alloc/free calls made

\* The state of the mark-sweep collector (src/mark-sweep-garbage-collector).
VARIABLES
    traceInfo,      \* std::map<Traceable *, ObjectHeader> traceInfo
    objects,        \* the memory of the Nodes that are allocated
    stack,          \* the stack words getRoots scans: the locals of main
    gstatus,        \* "ok" or "hung" (a gc() that never ends)
    glast,          \* the last step of the collector's program
    gops            \* steps of the collector's program made

gcVars == <<traceInfo, objects, stack, gstatus, glast, gops>>

allocVars == <<mem, brk, heapStart, top, searchMode, searchStart, free_list,
               segregatedLists, segregatedTops, segSlack, status, env, live, last, ops>>

vars == <<mem, brk, heapStart, top, searchMode, searchStart, free_list,
          segregatedLists, segregatedTops, segSlack, status, env, live, last, ops,
          traceInfo, objects, stack, gstatus, glast, gops>>

\* ------------------------------------------------------------ environment
(* What is undefined or unspecified in the source and fixed by a build or  *)
(* a run.  Each is fixed once for a whole behaviour; the model fixes it    *)
(* at the first call whose outcome depends on it: env[f] is {} until then  *)
(* and {v} once the choice f is fixed to v:                                *)
(*  negJunk   - the value of `!block->next->used` when the byte read is    *)
(*              neither 0 nor 1 (xor-1 code gives TRUE unless the byte is  *)
(*              1, compare-with-0 code gives FALSE);                       *)
(*  ptrIntNeg - whether (int) of an address-sized value is negative (bit   *)
(*              31 of the heap addresses);                                 *)
(*  tableGap  - words of padding between segregatedLists and               *)
(*              segregatedTops, which an out-of-range bucket index reads.  *)
EnvChoices == [negJunk : BOOLEAN, ptrIntNeg : BOOLEAN, tableGap : {0, 1}]
EnvFields == {"negJunk", "ptrIntNeg", "tableGap"}
EnvUnset == [f \in EnvFields |-> {}]
EnvDefault == [negJunk |-> FALSE, ptrIntNeg |-> FALSE, tableGap |-> 0]
\* The call whose state is s has consulted the choice f.
Touch(s, f) == [s EXCEPT !.touched = @ \union {f}]

\* ----------------------------------------------------------------- words
\* align rounding down instead of up: x & ~7
alignDown(x) == (x \div WordSize) * WordSize

\* inline size_t align(size_t x): (x + 7) & ~7
align(x) == ((x + WordSize - 1) \div WordSize) * WordSize

\* sizeof(std::declval<Block>().data)
SizeofData == WordSize

\* inline size_t allocSize(size_t size)
allocSize(size) == SizeofBlock + size - SizeofData

\* offsets of the fields of struct Block
OffSize == 0
OffUsed == WordSize
OffNext == 2 * WordSize
OffData == 3 * WordSize

\* a < b on size_t, a negative representative standing for 2^64 - k
ULess(a, b) == IF (a < 0) = (b < 0) THEN a < b ELSE b < 0

\* v is as large as an address: its bit 31 is not known
AddressSized(v) == v <= -Base \/ v >= Base

\* (int) x on a size_t value
IntCast(s, v) ==
    IF ~AddressSized(v) THEN v
    ELSE IF s.env.ptrIntNeg THEN -1 ELSE Base

\* The address a is a word of the mapped heap page.
Acc(s, a) ==
    /\ s.brk > 0
    /\ a >= Base
    /\ a < Base + MemWords * WordSize
    /\ (a - Base) % WordSize = 0

Idx(a) == (a - Base) \div WordSize

\* *(word_t *)a
Ld(s, a) == s.mem[Idx(a)]

\* *(word_t *)a = v
St(s, a, v) == [s EXCEPT !.mem[Idx(a)] = v]

\* *(bool *)a = b: only the low byte of the word changes
StByte(s, a, b) == [s EXCEPT !.mem[Idx(a)] = (@ - (@ % 256)) + b]

\* `block->used` as a condition: the byte is not zero
IsUsed(v) == (v % 256) # 0

\* the byte of v is no bool
JunkBool(v) == v % 256 \notin {0, 1}

\* `!block->used` as a condition
NotUsed(s, v) ==
    IF v % 256 = 0 THEN TRUE
    ELSE IF v % 256 = 1 THEN FALSE
    ELSE s.env.negJunk

\* The three header words of block can be accessed.
AccBlock(s, block) ==
    Acc(s, block + OffSize) /\ Acc(s, block + OffUsed) /\ Acc(s, block + OffNext)

Fault(s) == [s EXCEPT !.status = "crashed"]
Hang(s) == [s EXCEPT !.status = "hung"]
Ret(s, p) == [s |-> s, ret |-> p]

\* ------------------------------------------------------ split and allocate
\* Block *split(Block *block, size_t size)
split(s, block, size) ==
    LET freePart == block + allocSize(size)
    IN IF ~(AccBlock(s, freePart) /\ Acc(s, block + OffSize) /\ Acc(s, block + OffNext))
       THEN Fault(s)
       ELSE LET s1 == St(s, freePart + OffSize, Ld(s, block + OffSize) - allocSize(size))
                s2 == StByte(s1, freePart + OffUsed, 0)
                s3 == St(s2, freePart + OffNext, Ld(s2, block + OffNext))
                s4 == St(s3, block + OffSize, size)
                s5 == St(s4, block + OffNext, freePart)
            IN IF s.searchMode = FreeList
               THEN [s5 EXCEPT !.free_list = Append(@, block)]
               ELSE s5

\* inline bool canSplit(Block *block, size_t size)
canSplit(s, block, size) ==
    IntCast(s, allocSize(Ld(s, block + OffSize)) - size) >= SizeofBlock

\* Block *listAllocate(Block *block, size_t size)
listAllocate(s0, block, size) ==
    LET reads == s0.searchMode # SegregatedList /\ Acc(s0, block + OffSize)
        s == IF reads /\ AddressSized(allocSize(Ld(s0, block + OffSize)) - size)
             THEN Touch(s0, "ptrIntNeg") ELSE s0
        doSplit == reads /\ canSplit(s, block, size)
        s1 == IF doSplit THEN split(s, block, size) ELSE s
    IN IF s.searchMode # SegregatedList /\ ~Acc(s, block + OffSize) THEN Ret(Fault(s), NULL)
       ELSE IF s1.status # "ok" THEN Ret(s1, NULL)
       ELSE IF ~(Acc(s1, block + OffUsed) /\ Acc(s1, block + OffSize)) THEN Ret(Fault(s1), NULL)
       ELSE Ret(St(StByte(s1, block + OffUsed, 1), block + OffSize, size), block)

\* ------------------------------------------------------- placement search
\* The words `block->used || block->size < size` reads can be accessed.
AccSkip(s, block) ==
    /\ Acc(s, block + OffUsed)
    /\ IsUsed(Ld(s, block + OffUsed)) \/ Acc(s, block + OffSize)

\* the test of the searches with <= for <: a block of exactly size bytes is passed over
SkipExact(s, block, size) ==
    IsUsed(Ld(s, block + OffUsed)) \/ ~ULess(size, Ld(s, block + OffSize))

\* block->used || block->size < size
Skip(s, block, size) ==
    IsUsed(Ld(s, block + OffUsed)) \/ ULess(Ld(s, block + OffSize), size)

\* The loop of firstFit; seen holds the blocks already passed: passing one
\* again means the chain is cyclic and the loop never ends.
RECURSIVE firstFitLoop(_, _, _, _)
firstFitLoop(s, block, size, seen) ==
    IF block = NULL THEN Ret(s, NULL)
    ELSE IF block \in seen THEN Ret(Hang(s), NULL)
    ELSE IF ~AccSkip(s, block) THEN Ret(Fault(s), NULL)
    ELSE IF Skip(s, block, size)
         THEN IF ~Acc(s, block + OffNext) THEN Ret(Fault(s), NULL)
              ELSE firstFitLoop(s, Ld(s, block + OffNext), size, seen \union {block})
    ELSE listAllocate(s, block, size)

\* Block *firstFit(size_t size)
firstFit(s, size) == firstFitLoop(s, s.heapStart, size, {})

\* nextFit without `searchStart = block`: the cursor stays where it was
nextFitLoopNoCursor(s, start, block, size, seen) ==
    LET r == firstFitLoop([s EXCEPT !.heapStart = start], start, size, seen)
    IN Ret([r.s EXCEPT !.heapStart = s.heapStart], r.ret)

\* The loop of nextFit.
RECURSIVE nextFitLoop(_, _, _, _, _)
nextFitLoop(s, start, block, size, seen) ==
    IF block = NULL THEN Ret(s, NULL)
    ELSE IF block \in seen THEN Ret(Hang(s), NULL)
    ELSE IF ~AccSkip(s, block) THEN Ret(Fault(s), NULL)
    ELSE IF Skip(s, block, size)
         THEN IF ~Acc(s, block + OffNext) THEN Ret(Fault(s), NULL)
              ELSE LET n == Ld(s, block + OffNext)
                       b == IF n = NULL THEN s.heapStart ELSE n
                   IN IF b = start THEN Ret(s, NULL)
                      ELSE nextFitLoop(s, start, b, size, seen \union {block})
    ELSE listAllocate([s EXCEPT !.searchStart = block], block, size)

\* Block *nextFit(size_t size)
nextFit(s, size) ==
    LET s1 == IF s.searchStart = NULL THEN [s EXCEPT !.searchStart = s.heapStart] ELSE s
    IN nextFitLoop(s1, s1.searchStart, s1.searchStart, size, {})

\* bestFit keeping the first fitting block: best is never replaced
bestFitLoopFirst(s, block, best, size, seen) ==
    IF best # NULL THEN listAllocate(s, best, size)
    ELSE firstFitLoop(s, block, size, seen)

\* The loop of bestFit. A fitting block that is not smaller than best is
\* not stepped over: the loop then never ends.
RECURSIVE bestFitLoop(_, _, _, _, _)
bestFitLoop(s, block, best, size, seen) ==
    IF block = NULL
    THEN IF best = NULL THEN Ret(s, NULL) ELSE listAllocate(s, best, size)
    ELSE IF block \in seen THEN Ret(Hang(s), NULL)
    ELSE IF ~AccSkip(s, block) THEN Ret(Fault(s), NULL)
    ELSE IF Skip(s, block, size)
         THEN IF ~Acc(s, block + OffNext) THEN Ret(Fault(s), NULL)
              ELSE bestFitLoop(s, Ld(s, block + OffNext), best, size, seen \union {block})
    ELSE IF best = NULL \/ ULess(Ld(s, block + OffSize), Ld(s, best + OffSize))
         THEN IF ~Acc(s, block + OffNext) THEN Ret(Fault(s), NULL)
              ELSE bestFitLoop(s, Ld(s, block + OffNext), block, size, seen \union {block})
    ELSE Ret(Hang(s), NULL)

\* Block *bestFit(size_t size)
bestFit(s, size) == bestFitLoop(s, s.heapStart, NULL, size, {})

\* The loop of freeList over free_list, from its i-th entry.
RECURSIVE freeListLoop(_, _, _)
freeListLoop(s, i, size) ==
    IF i > Len(s.free_list) THEN Ret(s, NULL)
    ELSE LET block == s.free_list[i]
         IN IF ~Acc(s, block + OffSize) THEN Ret(Fault(s), NULL)
            ELSE IF ~ULess(Ld(s, block + OffSize), size) THEN Ret(s, block)
            ELSE freeListLoop(s, i + 1, size)

\* std::list::remove: every entry equal to x goes
ListRemove(l, x) == SelectSeq(l, LAMBDA y : y # x)

\* Block *freeList(size_t size)
freeList(s, size) ==
    LET f == freeListLoop(s, 1, size)
    IN IF f.s.status # "ok" \/ f.ret = NULL THEN f
       ELSE listAllocate([s EXCEPT !.free_list = ListRemove(@, f.ret)], f.ret, size)

\* getBucket without the - 1
getBucketOffByOne(size) == size \div WordSize

\* inline int getBucket(size_t size)
getBucket(size) == (size \div WordSize) - 1

\* The two tables lie one after the other in memory, tableGap words of
\* padding between them. Word p counted from segregatedLists[0] is
\* segregatedLists[p], the padding, segregatedTops[p - 5 - tableGap] or the
\* word after segregatedTops; Where says which.
ListsAt(s, i) == i
TopsAt(s, i) == NumBuckets + s.env.tableGap + i
Where(s, p) ==
    LET q == p - NumBuckets - s.env.tableGap
    IN IF p >= 0 /\ p < NumBuckets THEN <<"lists", p>>
       ELSE IF p >= NumBuckets /\ q < 0 THEN <<"pad", 0>>
       ELSE IF q >= 0 /\ q < NumBuckets THEN <<"tops", q>>
       ELSE IF q = NumBuckets THEN <<"after", 0>>
       ELSE <<"none", 0>>
AccSeg(s, p) == Where(s, p)[1] # "none"
LdSeg(s, p) ==
    LET w == Where(s, p)
    IN IF w[1] = "lists" THEN s.segregatedLists[w[2]]
       ELSE IF w[1] = "tops" THEN s.segregatedTops[w[2]]
       ELSE s.segSlack[w[1]]
StSeg(s, p, v) ==
    LET w == Where(s, p)
    IN IF w[1] = "lists" THEN [s EXCEPT !.segregatedLists[w[2]] = v]
       ELSE IF w[1] = "tops" THEN [s EXCEPT !.segregatedTops[w[2]] = v]
       ELSE [s EXCEPT !.segSlack[w[1]] = v]
\* A bucket index outside the tables: what it reaches depends on tableGap.
TouchBucket(s, bucket) ==
    IF bucket >= 0 /\ bucket < NumBuckets THEN s ELSE Touch(s, "tableGap")

\* Block *segregatedFit(size_t size)
segregatedFit(s0, size) ==
    LET bucket == getBucket(size)
        s == TouchBucket(s0, bucket)
        originalHeapStart == s.heapStart
    IN IF ~AccSeg(s, ListsAt(s, bucket)) THEN Ret(Fault(s), NULL)
       ELSE LET r == firstFit([s EXCEPT !.heapStart = LdSeg(s, ListsAt(s, bucket))], size)
            IN Ret([r.s EXCEPT !.heapStart = originalHeapStart], r.ret)

\* Block *findBlock(size_t size)
findBlock(s, size) ==
    CASE s.searchMode = FirstFit -> firstFit(s, size)
      [] s.searchMode = NextFit -> nextFit(s, size)
      [] s.searchMode = BestFit -> bestFit(s, size)
      [] s.searchMode = FreeList -> freeList(s, size)
      [] s.searchMode = SegregatedList -> segregatedFit(s, size)

\* ------------------------------------------------------------- coalescing
\* coalesce adding the absorbed header to the size as well
coalesceWithHeader(s, block) ==
    LET next == Ld(s, block + OffNext)
    IN IF ~Acc(s, next + OffUsed) THEN Fault(s)
       ELSE IF ~NotUsed(s, Ld(s, next + OffUsed)) THEN s
       ELSE IF ~(Acc(s, next + OffSize) /\ Acc(s, next + OffNext) /\ Acc(s, block + OffSize))
            THEN Fault(s)
       ELSE LET s1 == IF next = s.top THEN [s EXCEPT !.top = block] ELSE s
                s2 == St(s1, block + OffSize,
                         Ld(s1, block + OffSize) + allocSize(Ld(s1, next + OffSize)))
            IN St(s2, block + OffNext, Ld(s2, next + OffNext))

\* Block *coalesce(Block *block)
coalesce(s, block) ==
    LET next == Ld(s, block + OffNext)
    IN IF ~Acc(s, next + OffUsed) THEN Fault(s)
       ELSE IF ~NotUsed(s, Ld(s, next + OffUsed)) THEN s
       ELSE IF ~(Acc(s, next + OffSize) /\ Acc(s, next + OffNext) /\ Acc(s, block + OffSize))
            THEN Fault(s)
       ELSE LET s1 == IF next = s.top THEN [s EXCEPT !.top = block] ELSE s
                s2 == St(s1, block + OffSize,
                         Ld(s1, block + OffSize) + Ld(s1, next + OffSize))
            IN St(s2, block + OffNext, Ld(s2, next + OffNext))

\* bool canCoalesce(Block *block)
canCoalesce(s, block) ==
    /\ Ld(s, block + OffNext) # NULL
    /\ NotUsed(s, Ld(s, Ld(s, block + OffNext) + OffUsed))

\* The words canCoalesce reads can be accessed.
AccCanCoalesce(s, block) ==
    /\ Acc(s, block + OffNext)
    /\ Ld(s, block + OffNext) = NULL \/ Acc(s, Ld(s, block + OffNext) + OffUsed)

\* Block *getHeader(word_t *data)
getHeader(data) == data + SizeofData - SizeofBlock

\* ------------------------------------------------------------ the facade
\* void resetHeap(): brk(heapStart) rolls the break back; a break back at
\* Base unmaps the heap page, which reads as zero once it is mapped again.
resetHeap(s) ==
    IF s.heapStart = NULL THEN s
    ELSE [s EXCEPT !.brk = s.heapStart - Base,
                   !.mem = IF s.heapStart = Base THEN [i \in 0 .. MemWords - 1 |-> 0] ELSE @,
                   !.heapStart = NULL,
                   !.top = NULL,
                   !.searchStart = NULL]

\* void init(SearchMode mode)
init(s, mode) == resetHeap([s EXCEPT !.searchMode = mode])

\* sbrk refuses to move the break past the end of the page.
SbrkFails(s, size) == s.brk + allocSize(size) > MemWords * WordSize

\* Block *requestFromOS(size_t size)
requestFromOS(s, size) ==
    LET block == Base + s.brk
    IN IF SbrkFails(s, size) THEN Ret(s, NULL)
       ELSE Ret([s EXCEPT !.brk = @ + allocSize(size)], block)

\* alloc, lines 291-301: the new block goes to the end of its bucket
appendSegregated(s0, block, size) ==
    LET bucket == getBucket(size)
        s == TouchBucket(s0, bucket)
    IN IF ~(AccSeg(s, ListsAt(s, bucket)) /\ AccSeg(s, TopsAt(s, bucket))) THEN Fault(s)
       ELSE LET s1 == IF LdSeg(s, ListsAt(s, bucket)) = NULL
                      THEN StSeg(s, ListsAt(s, bucket), block)
                      ELSE s
                t == LdSeg(s1, TopsAt(s, bucket))
            IN IF t # NULL /\ ~Acc(s1, t + OffNext) THEN Fault(s1)
               ELSE LET s2 == IF t # NULL THEN St(s1, t + OffNext, block) ELSE s1
                    IN StSeg(s2, TopsAt(s, bucket), block)

\* alloc, lines 302-311: the new block goes to the end of the main chain
appendMain(s, block) ==
    LET s1 == IF s.heapStart = NULL THEN [s EXCEPT !.heapStart = block] ELSE s
    IN IF s1.top # NULL /\ ~Acc(s1, s1.top + OffNext) THEN Fault(s1)
       ELSE LET s2 == IF s1.top # NULL THEN St(s1, s1.top + OffNext, block) ELSE s1
            IN [s2 EXCEPT !.top = block]

\* The result of alloc: the state, the handle and how the block was found
\* ("reuse", "split", "grow", or "oom" when sbrk refused).
RetHow(s, p, how) == [s |-> s, ret |-> p, how |-> how]

\* word_t *alloc(size_t size)
alloc(s, n) ==
    LET size == align(n)
        f == findBlock(s, size)
    IN IF f.s.status # "ok" THEN RetHow(f.s, NULL, "search")
       ELSE IF f.ret # NULL
            THEN RetHow(f.s, f.ret + OffData,
                        IF Ld(f.s, f.ret + OffNext) # Ld(s, f.ret + OffNext)
                        THEN "split" ELSE "reuse")
       ELSE LET r == requestFromOS(f.s, size)
                block == r.ret
                how == IF block = NULL THEN "oom" ELSE "grow"
            IN IF ~(Acc(r.s, block + OffSize) /\ Acc(r.s, block + OffUsed))
               THEN RetHow(Fault(r.s), NULL, how)
               ELSE LET s1 == StByte(St(r.s, block + OffSize, size), block + OffUsed, 1)
                        s2 == IF s.searchMode = SegregatedList
                              THEN appendSegregated(s1, block, size)
                              ELSE appendMain(s1, block)
                    IN RetHow(s2, block + OffData, how)

\* free returning right after a merge, the block still marked used
freeMergeOnly(s0, data) ==
    LET block == getHeader(data)
        s == IF s0.searchMode # SegregatedList /\ AccCanCoalesce(s0, block)
                /\ Ld(s0, block + OffNext) # NULL
                /\ JunkBool(Ld(s0, Ld(s0, block + OffNext) + OffUsed))
             THEN Touch(s0, "negJunk") ELSE s0
        merge == s.searchMode # SegregatedList /\ AccCanCoalesce(s, block)
                 /\ canCoalesce(s, block)
        s1 == IF merge THEN coalesce(s, block) ELSE s
    IN IF s.searchMode # SegregatedList /\ ~AccCanCoalesce(s, block) THEN Fault(s)
       ELSE IF s1.status # "ok" THEN s1
       ELSE IF ~Acc(s1, block + OffUsed) THEN Fault(s1)
       ELSE LET s2 == IF merge THEN s1 ELSE StByte(s1, block + OffUsed, 0)
            IN IF s.searchMode = FreeList
               THEN [s2 EXCEPT !.free_list = Append(@, block)]
               ELSE s2

\* void free(word_t *data)
free(s0, data) ==
    LET block == getHeader(data)
        s == IF s0.searchMode # SegregatedList /\ AccCanCoalesce(s0, block)
                /\ Ld(s0, block + OffNext) # NULL
                /\ JunkBool(Ld(s0, Ld(s0, block + OffNext) + OffUsed))
             THEN Touch(s0, "negJunk") ELSE s0
        merge == s.searchMode # SegregatedList /\ AccCanCoalesce(s, block)
                 /\ canCoalesce(s, block)
        s1 == IF merge THEN coalesce(s, block) ELSE s
    IN IF s.searchMode # SegregatedList /\ ~AccCanCoalesce(s, block) THEN Fault(s)
       ELSE IF s1.status # "ok" THEN s1
       ELSE IF ~Acc(s1, block + OffUsed) THEN Fault(s1)
       ELSE LET s2 == StByte(s1, block + OffUsed, 0)
            IN IF s.searchMode = FreeList
               THEN [s2 EXCEPT !.free_list = Append(@, block)]
               ELSE s2

\* void visit(callback): the blocks the callback is given, from block on.
\* The walk stops at a block it has passed already or cannot read.
RECURSIVE visit(_, _, _)
visit(s, block, seen) ==
    IF block = NULL \/ block \in seen \/ ~AccBlock(s, block) THEN <<>>
    ELSE <<block>> \o visit(s, Ld(s, block + OffNext), seen \union {block})

\* void traverse(callback)
traverse(s) ==
    IF s.searchMode = SegregatedList
    THEN visit(s, s.segregatedLists[0], {}) \o visit(s, s.segregatedLists[1], {})
         \o visit(s, s.segregatedLists[2], {}) \o visit(s, s.segregatedLists[3], {})
         \o visit(s, s.segregatedLists[4], {})
    ELSE visit(s, s.heapStart, {})

\* ---------------------------------------------- the mark-sweep collector
(* Model of src/mark-sweep-garbage-collector/main.cpp.  getRoots and       *)
(* getPointers read memory byte by byte, so words are modelled as their    *)
(* eight bytes (little endian).  Environment: ::operator new returns any   *)
(* free one of NumAddrs addresses HeapLow + 32 * i.  The bytes of a Node   *)
(* that no constructor writes (the padding behind `name`) and the bytes    *)
(* right behind the last Node are indeterminate: each gc() reads some      *)
(* value left over from earlier use, zero or part of an old pointer (the   *)
(* junk of that gc()).  All addresses of the model are below 2^32.         *)

\* Addresses ::operator new can return.
NumAddrs == 2
\* Steps of the collector's program per run.
MaxGcOps == 5
\* sizeof(Node): vptr, name (padded to a word), left, right
SizeofNode == 32
\* Lowest address ::operator new returns.
HeapLow == 6295552
\* The address of the vtable of Node, stored in the first word of a Node.
VPtr == 4210704
\* The word at __stackBegin: the frame pointer saved by the caller of main.
FrameWord == 2147479792
\* Stack words between the stack pointer in getRoots and __stackBegin that
\* hold locals of main.
NumSlots == 2
\* Values of `char name`: 'A' and ' '.
Names == {65, 32}

Addrs == {HeapLow + SizeofNode * i : i \in 0 .. NumAddrs - 1}

\* The eight bytes of the word v, lowest first.
LE(v) == <<v % 256, (v \div 256) % 256, (v \div 65536) % 256,
           (v \div 16777216) % 256, 0, 0, 0, 0>>

\* What the seven padding bytes behind `name` can hold: the upper bytes of
\* the word that was there before, zero or an old heap pointer.
Paddings == {SubSeq(LE(0), 2, 8), SubSeq(LE(HeapLow), 2, 8)}

\* What the seven bytes behind a Node can hold when no Node follows it in
\* memory: the start of a zero word or of an old pointer.
Beyonds == {SubSeq(LE(0), 1, 7), SubSeq(LE(HeapLow), 1, 7)}

\* What a gc() can read in the bytes no constructor wrote: the padding of
\* each of the Nodes objs and the start of the free memory behind a Node.
Junk(objs) == [pad : [DOMAIN objs -> Paddings], beyond : Beyonds]

\* The bytes *(uintptr_t *)p can read for p inside the Node at object: the
\* 32 bytes of the Node and the 7 bytes behind it, which are the start of
\* the next Node when there is one.
NodeBytes(objs, object, junk) ==
    LE(VPtr) \o <<objs[object].name>> \o junk.pad[object]
    \o LE(objs[object].left) \o LE(objs[object].right)
    \o (IF object + SizeofNode \in DOMAIN objs
        THEN SubSeq(LE(VPtr), 1, WordSize - 1)
        ELSE junk.beyond)

\* The loop of getPointers / getRoots: the addresses recorded in info among
\* the 8-byte windows of bytes that start at the offsets p .. end - 1.
RECURSIVE scanBytes(_, _, _, _)
scanBytes(info, bytes, p, end) ==
    IF p >= end THEN <<>>
    ELSE LET window == SubSeq(bytes, p + 1, p + WordSize)
             hits == {a \in DOMAIN info : LE(a) = window}
         IN (IF hits # {} THEN <<CHOOSE a \in hits : TRUE>> ELSE <<>>)
            \o scanBytes(info, bytes, p + 1, end)

\* std::vector<Traceable *> getPointers(Traceable *object)
getPointers(info, objs, object, junk) ==
    scanBytes(info, NodeBytes(objs, object, junk), 0, info[object].size)

\* The bytes getRoots reads: the stack words and, for the last offsets, the
\* first bytes of the word at __stackBegin.
RECURSIVE StackBytes(_, _)
StackBytes(stk, i) ==
    IF i > NumSlots THEN SubSeq(LE(FrameWord), 1, WordSize - 1)
    ELSE LE(stk[i]) \o StackBytes(stk, i + 1)

\* std::vector<Traceable *> getRoots()
getRoots(info, stk) == scanBytes(info, StackBytes(stk, 1), 0, WordSize * NumSlots)

\* The loop of mark; fuel counts the iterations left before the loop is
\* taken to run for ever.
RECURSIVE markLoop(_, _, _, _, _)
markLoop(info, objs, worklist, junk, fuel) ==
    IF worklist = <<>> THEN [info |-> info, status |-> "ok"]
    ELSE IF fuel = 0 THEN [info |-> info, status |-> "hung"]
    ELSE LET o == worklist[Len(worklist)]
             rest == SubSeq(worklist, 1, Len(worklist) - 1)
         IN IF ~info[o].marked
            THEN markLoop([info EXCEPT ![o].marked = TRUE], objs,
                          rest \o getPointers(info, objs, o, junk), junk, fuel - 1)
            ELSE markLoop(info, objs, rest, junk, fuel - 1)

\* Iterations no run of mark over NumAddrs objects can exceed: every stack
\* offset and every offset of every object pushes one entry at most.
MarkFuel == WordSize * NumSlots + NumAddrs * SizeofNode + 1

\* void mark()
mark(info, objs, stk, junk) ==
    markLoop(info, objs, getRoots(info, stk), junk, MarkFuel)

\* void sweep(): marked entries are unmarked, the others deleted and erased.
sweep(info) ==
    [a \in {b \in DOMAIN info : info[b].marked} |-> [info[a] EXCEPT !.marked = FALSE]]

\* ---------------------------------------------------------- state machine
\* The allocator's state as one value, with the choices e of the environment.
S(e) == [mem |-> mem, brk |-> brk, heapStart |-> heapStart, top |-> top,
         searchMode |-> searchMode, searchStart |-> searchStart,
         free_list |-> free_list, segregatedLists |-> segregatedLists,
         segregatedTops |-> segregatedTops, segSlack |-> segSlack,
         status |-> status, env |-> e, touched |-> {}]

\* The state after static initialisation (lines 30-51).
Init ==
    /\ mem = [i \in 0 .. MemWords - 1 |-> 0]
    /\ brk = 0
    /\ heapStart = NULL
    /\ top = NULL
    /\ searchMode = FirstFit
    /\ searchStart = NULL
    /\ free_list = <<>>
    /\ segregatedLists = [i \in 0 .. NumBuckets - 1 |-> NULL]
    /\ segregatedTops = [i \in 0 .. NumBuckets - 1 |-> NULL]
    /\ segSlack = [pad |-> 0, after |-> 0]
    /\ status = "ok"
    /\ env = EnvUnset
    /\ live = EmptyBag
    /\ last = [op |-> "none", arg |-> 0, ret |-> NULL, how |-> "none", freed |-> NULL]
    /\ ops = 0
    /\ traceInfo = [a \in {} |-> 0]
    /\ objects = [a \in {} |-> 0]
    /\ stack = [i \in 1 .. NumSlots |-> NULL]
    /\ gstatus = "ok"
    /\ glast = "none"
    /\ gops = 0

\* The choices that agree with what env has fixed so far.
Completions == {e \in EnvChoices : \A f \in EnvFields : env[f] = {} \/ e[f] \in env[f]}
\* e with the default for what is neither fixed nor consulted by the call.
Canonical(e, touched) ==
    \A f \in EnvFields : (env[f] = {} /\ f \notin touched) => e[f] = EnvDefault[f]
EnvStart == CHOOSE e \in Completions : Canonical(e, {})

\* The outcomes of a call F, one for each choice of the environment that
\* the call consults and nothing has fixed yet.
Outcomes(F(_)) ==
    LET r0 == F(EnvStart)
    IN IF \A f \in r0.s.touched : env[f] # {} THEN {r0}
       ELSE {F(e) : e \in {c \in Completions : Canonical(c, F(c).s.touched)}}

\* The variables take the fields of t. A call that crashed or hung leaves
\* the process dead: the heap is kept as it was before the call.
Becomes(t) ==
    /\ status' = t.status
    /\ IF t.status = "ok"
       THEN /\ mem' = t.mem
            /\ brk' = t.brk
            /\ heapStart' = t.heapStart
            /\ top' = t.top
            /\ searchMode' = t.searchMode
            /\ searchStart' = t.searchStart
            /\ free_list' = t.free_list
            /\ segregatedLists' = t.segregatedLists
            /\ segregatedTops' = t.segregatedTops
            /\ segSlack' = t.segSlack
       ELSE UNCHANGED <<mem, brk, heapStart, top, searchMode, searchStart,
                        free_list, segregatedLists, segregatedTops, segSlack>>
    /\ env' = [f \in EnvFields |-> IF f \in t.touched THEN {t.env[f]} ELSE env[f]]

\* init(mode) is called.
CallInit(mode) ==
    /\ status = "ok"
    /\ Becomes(init(S(EnvStart), mode))
    /\ live' = EmptyBag
    /\ last' = [op |-> "init", arg |-> 0, ret |-> NULL, how |-> "none", freed |-> NULL]
    /\ UNCHANGED ops
    /\ UNCHANGED gcVars

\* alloc(n) is called; at most max calls of alloc and free are made.
CallAlloc(n, max) ==
    /\ status = "ok"
    /\ ops < max
    /\ \E r \in Outcomes(LAMBDA e : alloc(S(e), n)) :
          /\ Becomes(r.s)
          /\ live' = IF r.s.status = "ok" THEN live (+) SetToBag({r.ret}) ELSE live
          /\ last' = [op |-> "alloc", arg |-> n,
                      ret |-> IF r.s.status = "ok" THEN r.ret ELSE NULL,
                      how |-> r.how,
                      freed |-> IF last.op = "free" THEN last.arg ELSE NULL]
    /\ ops' = ops + 1
    /\ UNCHANGED gcVars

\* free(data) is called with a handle alloc returned and nobody freed.
CallFree(data, max) ==
    /\ status = "ok"
    /\ ops < max
    /\ BagIn(data, live)
    /\ \E r \in Outcomes(LAMBDA e : Ret(free(S(e), data), NULL)) :
          /\ Becomes(r.s)
          /\ last' = [op |-> "free", arg |-> data, ret |-> NULL,
                      how |-> IF r.s.status # "ok" THEN "fault"
                              ELSE IF r.s.mem[Idx(getHeader(data) + OffNext)]
                                      # mem[Idx(getHeader(data) + OffNext)]
                                   THEN "merge" ELSE "plain",
                      freed |-> NULL]
    /\ live' = live (-) SetToBag({data})
    /\ ops' = ops + 1
    /\ UNCHANGED gcVars

\* Any call at any time.
Next ==
    \/ \E mode \in SearchMode : CallInit(mode)
    \/ \E n \in Requests : CallAlloc(n, MaxOps)
    \/ \E data \in BagToSet(live) : CallFree(data, MaxOps)

Spec == Init /\ [][Next]_vars

\* One session: init(mode) as the first call, then alloc and free only.
NextIn(mode) ==
    \/ last.op = "none" /\ CallInit(mode)
    \/ \E n \in Requests : last.op # "none" /\ CallAlloc(n, DeepOps)
    \/ \E data \in BagToSet(live) : CallFree(data, DeepOps)

NextFirstFit == NextIn(FirstFit)
SpecFirstFit == Init /\ [][NextFirstFit]_vars
NextNextFit == NextIn(NextFit)
SpecNextFit == Init /\ [][NextNextFit]_vars
NextBestFit == NextIn(BestFit)
SpecBestFit == Init /\ [][NextBestFit]_vars
NextFreeList == NextIn(FreeList)
SpecFreeList == Init /\ [][NextFreeList]_vars
NextSegregated == NextIn(SegregatedList)
SpecSegregated == Init /\ [][NextSegregated]_vars

\* ------------------------------------------- the collector's program
\* nullptr and the values of the program's locals.
Locals == {NULL} \union {stack[i] : i \in 1 .. NumSlots}

\* The pointers the program can get hold of: nullptr, its locals and the
\* fields of the Nodes its locals point to.
Held ==
    Locals
    \union {objects[stack[i]].left : i \in {j \in 1 .. NumSlots : stack[j] \in DOMAIN objects}}
    \union {objects[stack[i]].right : i \in {j \in 1 .. NumSlots : stack[j] \in DOMAIN objects}}

\* local = new Node(name, l, r): operator new takes the free address a and
\* records the header, the constructor writes name, left and right.
GcNew(a, name, l, r, slot) ==
    /\ gstatus = "ok"
    /\ gops < MaxGcOps
    /\ a \notin DOMAIN traceInfo
    /\ traceInfo' = (a :> [marked |-> FALSE, size |-> SizeofNode]) @@ traceInfo
    /\ objects' = (a :> [name |-> name, left |-> l, right |-> r]) @@ objects
    /\ stack' = [stack EXCEPT ![slot] = a]
    /\ glast' = "new"
    /\ gops' = gops + 1
    /\ UNCHANGED gstatus
    /\ UNCHANGED allocVars

\* local->left = v or local->right = v
GcSetField(slot, field, v) ==
    /\ gstatus = "ok"
    /\ gops < MaxGcOps
    /\ stack[slot] \in DOMAIN objects
    /\ objects' = [objects EXCEPT ![stack[slot]][field] = v]
    /\ glast' = "set"
    /\ gops' = gops + 1
    /\ UNCHANGED <<traceInfo, stack, gstatus>>
    /\ UNCHANGED allocVars

\* local = v
GcSetLocal(slot, v) ==
    /\ gstatus = "ok"
    /\ gops < MaxGcOps
    /\ stack[slot] # v
    /\ stack' = [stack EXCEPT ![slot] = v]
    /\ glast' = "local"
    /\ gops' = gops + 1
    /\ UNCHANGED <<traceInfo, objects, gstatus>>
    /\ UNCHANGED allocVars

\* gc(), reading junk in the bytes that are indeterminate
GcRun(junk) ==
    /\ gstatus = "ok"
    /\ gops < MaxGcOps
    /\ \E m \in {mark(traceInfo, objects, stack, junk)} :
          IF m.status = "ok"
          THEN /\ traceInfo' = sweep(m.info)
               /\ objects' = [a \in DOMAIN traceInfo' |-> objects[a]]
               /\ UNCHANGED gstatus
          ELSE /\ gstatus' = m.status
               /\ UNCHANGED <<traceInfo, objects>>
    /\ glast' = "gc"
    /\ gops' = gops + 1
    /\ UNCHANGED stack
    /\ UNCHANGED allocVars

NextGC ==
    \/ \E a \in Addrs, name \in Names, l \in Locals, r \in Locals, slot \in 1 .. NumSlots :
          GcNew(a, name, l, r, slot)
    \/ \E slot \in 1 .. NumSlots, field \in {"left", "right"}, v \in Locals :
          GcSetField(slot, field, v)
    \/ \E slot \in 1 .. NumSlots, v \in Held : GcSetLocal(slot, v)
    \/ \E junk \in Junk(objects) : GcRun(junk)

SpecGC == Init /\ [][NextGC]_vars

\* ------------------------------------------------------------------ claims
\* The header fields of the block whose payload handle is data, as the
\* heap holds them now.
SizeAt(block) == mem[Idx(block + OffSize)]
UsedAt(block) == mem[Idx(block + OffUsed)] % 256
NextAt(block) == mem[Idx(block + OffNext)]

\* What traverse yields now.
Traversal == traverse(S(EnvDefault))

\* m is the smallest multiple of the word size that is >= n.
IsAligned(m, n) == m % WordSize = 0 /\ m >= n /\ m < n + WordSize

\* The aligned size of the request n.
Aligned(n) == CHOOSE m \in 0 .. n + WordSize : IsAligned(m, n)

\* The request n belongs to one of the five buckets.
InBuckets(n) == \E k \in 0 .. NumBuckets - 1 : IsAligned(WordSize * (k + 1), n)

\* The last call was an alloc that returned a handle.
Returned == status = "ok" /\ last.op = "alloc"

\* C1: whenever alloc(n) returns a handle (in segregated mode: for n of one
\* of the five buckets), the header of the block has used == true and its
\* size is the smallest multiple of 8 that is >= n, whether the block was
\* grown, reused whole or split off.
C1_AllocHeaderExact ==
    (Returned /\ (searchMode = SegregatedList => InBuckets(last.arg))) =>
        /\ UsedAt(getHeader(last.ret)) = 1
        /\ IsAligned(SizeAt(getHeader(last.ret)), last.arg)

C1_Witness ==
    /\ Returned
    /\ last.how = "split"
    /\ last.arg = 3
    /\ SizeAt(getHeader(last.ret)) = 8
    /\ UsedAt(getHeader(last.ret)) = 1

\* C2: right after free(h) returns, the header of h has used == false,
\* whether the call merged the block with its successor or not.
C2_FreeClearsUsed ==
    (status = "ok" /\ last.op = "free") => UsedAt(getHeader(last.arg)) = 0

C2_Witness ==
    /\ status = "ok"
    /\ last.op = "free"
    /\ last.how = "merge"
    /\ UsedAt(getHeader(last.arg)) = 0

\* C3: outside segregated mode, when the chain successor S of B is free as
\* free(B) is called, then after the call B's size is the sum of the two
\* sizes before it, B's next is the next S had, and traverse does not
\* yield S any more.
C3_Step ==
    LET B == getHeader(last'.arg)
        Succ == NextAt(B)
    IN (/\ status' = "ok"
        /\ last'.op = "free"
        /\ searchMode # SegregatedList
        /\ Succ # NULL
        /\ UsedAt(Succ) = 0)
       => /\ mem'[Idx(B + OffSize)] = SizeAt(B) + SizeAt(Succ)
          /\ mem'[Idx(B + OffNext)] = NextAt(Succ)
          /\ \A i \in 1 .. Len(Traversal') : Traversal'[i] # Succ
C3_CoalesceSums == [][C3_Step]_vars

\* The elements of the sequence q.
Range(q) == {q[i] : i \in 1 .. Len(q)}

\* The block is free and at least size bytes large, as the searches test it.
Fits(block, size) == UsedAt(block) = 0 /\ ~ULess(SizeAt(block), size)

\* The blocks a search of the present mode passes, in its order: the main
\* chain from heapStart; under next-fit from the cursor to the end of the
\* chain and then from heapStart on.
SearchOrder ==
    IF searchMode = NextFit /\ searchStart # NULL
    THEN visit(S(EnvDefault), searchStart, {})
         \o SelectSeq(Traversal,
                      LAMBDA b : b \notin Range(visit(S(EnvDefault), searchStart, {})))
    ELSE Traversal

\* No other free block that fits size is preferred to block by the mode:
\* none comes before it in the search order (first-fit, next-fit), none is
\* at most as large (best-fit).
Preferred(block, size) ==
    /\ block \in Range(SearchOrder)
    /\ \A i \in 1 .. Len(SearchOrder) :
          (SearchOrder[i] # block /\ Fits(SearchOrder[i], size)) =>
              IF searchMode = BestFit
              THEN ULess(SizeAt(block), SizeAt(SearchOrder[i]))
              ELSE \E j \in 1 .. i - 1 : SearchOrder[j] = block

\* free(p) has just returned and alloc(n) is the next call, it returns, and
\* align(n) is at most the size now at p's header.
FreeThenAlloc ==
    /\ status = "ok"
    /\ last.op = "free"
    /\ searchMode \in {FirstFit, BestFit, NextFit}
    /\ status' = "ok"
    /\ last'.op = "alloc"
    /\ ~ULess(SizeAt(getHeader(last.arg)), Aligned(last'.arg))

C5_Step ==
    LET b == getHeader(last'.ret)
        m == Aligned(last'.arg)
    IN (/\ searchMode = BestFit
        /\ status' = "ok"
        /\ last'.op = "alloc"
        /\ last'.how \in {"reuse", "split"})
       => /\ b \in Range(Traversal)
          /\ Fits(b, m)
          /\ \A i \in 1 .. Len(Traversal) :
                Fits(Traversal[i], m) =>
                    /\ ~ULess(SizeAt(Traversal[i]), SizeAt(b))
                    /\ SizeAt(Traversal[i]) = SizeAt(b) =>
                          ~\E j \in i + 1 .. Len(Traversal) : Traversal[j] = b
C6_CursorIsReturned ==
    (searchMode = NextFit /\ Returned /\ last.how \in {"reuse", "split"})
        => searchStart = getHeader(last.ret)
C6_Step ==
    (/\ searchMode = NextFit
     /\ status = "ok"
     /\ searchStart # NULL
     /\ status' = "ok"
     /\ last'.op = "alloc"
     /\ Fits(searchStart, Aligned(last'.arg)))
    => last'.ret = searchStart + OffData
C6_NextFitCursor == []C6_CursorIsReturned /\ [][C6_Step]_vars

C6_Witness ==
    /\ Returned
    /\ searchMode = NextFit
    /\ last.how = "reuse"
    /\ searchStart = getHeader(last.ret)
    /\ searchStart # heapStart

\* The chain of bucket k, as traverse walks it.
Bucket(k) == visit(S(EnvDefault), segregatedLists[k], {})

\* C7: in segregated mode the block alloc returns for a request of aligned
\* size 8 * (k + 1), k in 0..4, is in the chain of bucket k and in no other
\* bucket's chain; every block of bucket k has size 8 * (k + 1); and free
\* leaves every bucket's chain as it was.
C7_InOwnBucket ==
    (searchMode = SegregatedList /\ Returned /\ InBuckets(last.arg)) =>
        \A k \in 0 .. NumBuckets - 1 :
            (getHeader(last.ret) \in Range(Bucket(k)))
                <=> (Aligned(last.arg) = WordSize * (k + 1))
C7_ClassSizes ==
    searchMode = SegregatedList =>
        \A k \in 0 .. NumBuckets - 1 :
            \A i \in 1 .. Len(Bucket(k)) : SizeAt(Bucket(k)[i]) = WordSize * (k + 1)
C7_FreeStep ==
    (searchMode = SegregatedList /\ status' = "ok" /\ last'.op = "free")
        => \A k \in 0 .. NumBuckets - 1 : Bucket(k)' = Bucket(k)
C7_SegregatedIsolation ==
    [](C7_InOwnBucket /\ C7_ClassSizes) /\ [][C7_FreeStep]_vars

\* C8 as stated: init leaves the fresh-session state: main chain empty, top
\* and cursor unset, free list empty, the five buckets empty, the break
\* rolled back.
C8_InitIsFresh ==
    (status = "ok" /\ last.op = "init") =>
        /\ heapStart = NULL
        /\ top = NULL
        /\ searchStart = NULL
        /\ free_list = <<>>
        /\ \A k \in 0 .. NumBuckets - 1 :
              segregatedLists[k] = NULL /\ segregatedTops[k] = NULL
        /\ brk = 0

\* C9 as stated: when sbrk refuses to grow the break, alloc returns an
\* out-of-memory failure and leaves the allocator as it was.
C9_Step ==
    (last'.op = "alloc" /\ last'.how = "oom") =>
        /\ status' = "ok"
        /\ last'.ret = NULL
        /\ UNCHANGED <<mem, brk, heapStart, top, searchStart, free_list,
                       segregatedLists, segregatedTops, segSlack>>
C9_OomIsReported == [][C9_Step]_vars

\* C10 as stated: in segregated mode an alloc whose aligned size has no
\* bucket is rejected: no handle, and the allocator stays as it was.
C10_Step ==
    (/\ searchMode = SegregatedList
     /\ status = "ok"
     /\ last'.op = "alloc"
     /\ ~InBuckets(last'.arg))
    => /\ status' = "ok"
       /\ last'.ret = NULL
       /\ UNCHANGED <<mem, brk, heapStart, top, searchStart, free_list,
                      segregatedLists, segregatedTops, segSlack>>
C10_BadClassRejected == [][C10_Step]_vars

\* The five size classes the tables are labelled with (lines 37-51), in the
\* order of their entries.
Classes == <<8, 16, 32, 64, 128>>

\* C11 as stated: in segregated mode a request whose aligned size is the
\* k-th of the classes 8, 16, 32, 64, 128 is routed to bucket k - 1 (counting
\* buckets from 0): getBucket gives that index and the block alloc returns
\* is in that bucket's chain.
C11_ClassesRouted ==
    (searchMode = SegregatedList /\ Returned) =>
        \A k \in 1 .. Len(Classes) :
            Aligned(last.arg) = Classes[k] =>
                /\ getBucket(Aligned(last.arg)) = k - 1
                /\ getHeader(last.ret) \in Range(Bucket(k - 1))

\* The bytes of a block in front of its payload: allocSize(0).
HeaderBytes == allocSize(0)

\* The first address behind the block, for the size its header holds.
EndOf(block) == block + HeaderBytes + SizeAt(block)

\* C12 as stated: outside segregated mode the blocks of the main chain never
\* overlap: each block has a size that is not negative, ends at or before
\* its chain successor and, the tail, at or before the break; and a split
\* leaves a remainder of non-negative size that ends where the block split
\* ended before.
C12_ChainDisjoint ==
    (searchMode # SegregatedList /\ status = "ok") =>
        \A i \in 1 .. Len(Traversal) :
            /\ SizeAt(Traversal[i]) >= 0
            /\ EndOf(Traversal[i]) <= (IF i < Len(Traversal) THEN Traversal[i + 1]
                                       ELSE Base + brk)
C12_SplitStep ==
    LET block == getHeader(last'.ret)
        freePart == mem'[Idx(block + OffNext)]
    IN (searchMode # SegregatedList /\ status' = "ok" /\ last'.op = "alloc"
        /\ last'.how = "split")
       => /\ mem'[Idx(freePart + OffSize)] >= 0
          /\ freePart + HeaderBytes + mem'[Idx(freePart + OffSize)] <= EndOf(block)
C12_NoOverlap == []C12_ChainDisjoint /\ [][C12_SplitStep]_vars

\* C13 as stated: in free-list mode every entry of free_list is a block with
\* used == false, and the block alloc has just handed out is no entry of it.
C13_FreeListIsFree ==
    (searchMode = FreeList /\ status = "ok") =>
        /\ \A i \in 1 .. Len(free_list) : UsedAt(free_list[i]) = 0
        /\ Returned => getHeader(last.ret) \notin Range(free_list)

\* C14 as stated: in free-list mode, after an alloc that split a block the
\* remainder, the new chain successor of the block returned, is an entry of
\* free_list.
C14_Step ==
    (searchMode = FreeList /\ status' = "ok" /\ last'.op = "alloc"
     /\ last'.how = "split")
    => mem'[Idx(getHeader(last'.ret) + OffNext)] \in Range(free_list')
C14_RemainderListed == [][C14_Step]_vars

\* C15 as stated: in next-fit mode the cursor searchStart is unset or a
\* block of the main chain, as traverse walks it from heapStart.
C15_CursorInChain ==
    (searchMode = NextFit /\ status = "ok") =>
        searchStart = NULL \/ searchStart \in Range(Traversal)

\* C16 as stated: outside segregated mode, when the main chain is not
\* empty, top is the last block reachable from heapStart and its next is
\* unset; and an alloc that grows the heap leaves traverse yielding the
\* blocks it yielded before, followed by the new block.
C16_TopIsLast ==
    (searchMode # SegregatedList /\ status = "ok" /\ heapStart # NULL) =>
        /\ Traversal # <<>>
        /\ top = Traversal[Len(Traversal)]
        /\ NextAt(top) = NULL
C16_GrowStep ==
    (searchMode # SegregatedList /\ status' = "ok" /\ last'.op = "alloc"
     /\ last'.how = "grow")
    => Traversal' = Append(Traversal, getHeader(last'.ret))
C16_TopIsTail == []C16_TopIsLast /\ [][C16_GrowStep]_vars

\* C17 as stated: outside segregated mode, after every alloc and free no
\* free block of the main chain has a chain successor that is free too.
C17_NoAdjacentFree ==
    (searchMode # SegregatedList /\ status = "ok") =>
        \A i \in 1 .. Len(Traversal) - 1 :
            ~(UsedAt(Traversal[i]) = 0 /\ UsedAt(Traversal[i + 1]) = 0)

\* No free block of the main chain is at least size bytes large.
NoFit(size) == \A i \in 1 .. Len(Traversal) : ~Fits(Traversal[i], size)

\* C18 as stated: in next-fit mode an alloc that no free block of the main
\* chain can serve ends: the scan comes back to the block it started at and
\* reports a miss, the cursor refers to the block it referred to before
\* (unset standing for heapStart), and the heap is grown for the request.
C18_Step ==
    (searchMode = NextFit /\ status = "ok" /\ last'.op = "alloc"
     /\ NoFit(Aligned(last'.arg)))
    => /\ status' # "hung"
       /\ status' = "ok" =>
             /\ last'.how = "grow"
             /\ searchStart' = (IF searchStart = NULL THEN heapStart ELSE searchStart)
C18_NextFitMissEnds == [][C18_Step]_vars

\* C19 as stated: in best-fit mode every alloc ends, whatever the sizes and
\* the order of the free blocks that fit.
C19_Step ==
    (searchMode = BestFit /\ status = "ok" /\ last'.op = "alloc") => status' # "hung"
C19_BestFitEnds == [][C19_Step]_vars

\* The bytes of the block behind the handle h: [header address, payload end).
Extent(h) == getHeader(h) .. EndOf(getHeader(h)) - 1

\* C20 as stated: alloc never hands out memory that is still allocated: a
\* block it takes from a chain was free and a chain member before the call,
\* and the handles returned and not freed since are distinct and their
\* extents disjoint.
C20_LiveDisjoint ==
    status = "ok" =>
        \A h1 \in BagToSet(live) :
            /\ CopiesIn(h1, live) = 1
            /\ \A h2 \in BagToSet(live) \ {h1} : Extent(h1) \cap Extent(h2) = {}
C20_Step ==
    (status' = "ok" /\ last'.op = "alloc" /\ last'.how \in {"reuse", "split"})
    => /\ UsedAt(getHeader(last'.ret)) = 0
       /\ getHeader(last'.ret) \in Range(Traversal)
C20_NoDoubleHandOut == []C20_LiveDisjoint /\ [][C20_Step]_vars

\* The objects recorded in traceInfo that can be reached from the roots
\* getRoots finds, through the left and right fields of recorded objects.
RECURSIVE ReachFrom(_)
ReachFrom(R) ==
    LET more == {p \in DOMAIN traceInfo :
                    \E o \in R : p = objects[o].left \/ p = objects[o].right}
    IN IF more \subseteq R THEN R ELSE ReachFrom(R \union more)
Reachable == ReachFrom(Range(getRoots(traceInfo, stack)))

\* C21 as stated: every gc() ends and leaves traceInfo holding exactly the
\* objects that were reachable from the roots through pointer fields when
\* it started, every surviving header with marked == false.
C21_Step ==
    (gstatus = "ok" /\ glast' = "gc" /\ gops' = gops + 1) =>
        /\ gstatus' = "ok"
        /\ DOMAIN traceInfo' = Reachable
        /\ \A a \in DOMAIN traceInfo' : ~traceInfo'[a].marked
C21_GcExact == [][C21_Step]_vars

====
